---- MODULE Spec2Model ----
\* Conway's Game of Life on a Klein bottle (kleinlife): the ToroidalLife engine
\* of life.ts, the compute shader life.wgsl and the GPU queue they drive.
EXTENDS Integers, Sequences, FiniteSets, TLC

VARIABLES
  grid_size_x,       \* ToroidalLife.grid_size_x (width, tubularSegments)
  grid_size_y,       \* ToroidalLife.grid_size_y (height, radialSegments)
  step,              \* ToroidalLife.step
  currentCellState,  \* index into cellStateStorage of ToroidalLife.currentCellState
  cellStateArray,    \* ToroidalLife.cellStateArray, the CPU scratch array
  cellStateStorage,  \* contents of the two GPU buffers "Cell State A" / "Cell State B"
  queue,             \* device.queue: operations submitted and not yet executed
  invoked,           \* invocations of computeMain already run in the executing pass
  updates,           \* history: number of update() calls made
  bufKind,           \* history: what each GPU buffer holds
  renderSeen,        \* history: what the last executed render pass read
  staleSeen,         \* history: the executing pass overwrote a different stale value
  probe              \* a coordinate pair and what the two resolvers make of it

vars == << grid_size_x, grid_size_y, step, currentCellState, cellStateArray,
           cellStateStorage, queue, invoked, updates, bufKind, renderSeen,
           staleSeen, probe >>

\* ---------------------------------------------------------------- bounds

\* update() calls explored in one behaviour
MaxStep == 3
\* operations in flight in the GPU queue
MaxQueue == 2
\* grid widths (heights) on either side of 0 that the probed coordinates span
ProbeBands == 2

\* update() calls explored after a scenario pattern is seeded
GliderSteps == 4

\* update() calls explored while a lone glider travels
GliderRun == 64

\* clicks on the record button, frames captured by the render loop while
\* recordings start and stop (MaxShots) and during one long recording
\* (MaxFrames), and messages in flight in each direction between the page and
\* the worker
MaxClicks == 3
MaxShots == 2
MaxFrames == 10
MaxInFlight == 2

\* the time the render loop runs for, in frames of the recording clock
MaxTicks == 10

\* largest multiple of 2^32 in a number passed to isPowerOf2
MaxHigh == 3

\* largest dimension passed to the constructor when its guard is probed
MaxArg == 17

\* ------------------------------------------------------- 32-bit arithmetic
\* A 32-bit word is held as the signed integer with the same bits: a u32
\* value v of the shader is held as v when v < 2^31 and as v - 2^32 otherwise,
\* and a JS number taken through ToInt32 is held as its ToInt32 value.  (The
\* integers of the model checker are 32 bits wide themselves, so the wrapping
\* operations below never form a value outside that range.)

MaxInt32 == (2^30 - 1) + 2^30
MinInt32 == (-MaxInt32) - 1

\* a + b on 32-bit words, wrapping modulo 2^32
Add32(a, b) ==
  IF b >= 0
    THEN IF a > MaxInt32 - b
           THEN MinInt32 + ((a - (MaxInt32 - b)) - 1)
           ELSE a + b
    ELSE IF a < MinInt32 - b
           THEN MaxInt32 - (((MinInt32 - b) - a) - 1)
           ELSE a + b

\* a - b on 32-bit words, wrapping modulo 2^32
Sub32(a, b) ==
  IF b = MinInt32 THEN Add32(Add32(a, MaxInt32), 1) ELSE Add32(a, -b)

\* the u32 comparison v >= n for a word v and 0 < n < 2^31
U32Ge(v, n) == v < 0 \/ v >= n

\* 2^32 modulo m, for 0 < m <= 2^28
TwoTo32Mod(m) == ((2^30 % m) * 4) % m

\* the u32 remainder v % m for a word v and 0 < m <= 2^28
U32Mod(v, m) ==
  IF v >= 0 THEN v % m ELSE ((v % m) + TwoTo32Mod(m)) % m

RECURSIVE JsAnd(_, _)
\* JS a & b on two words, bit by bit on the two's complement forms: a % 2 is
\* the lowest bit and a \div 2 the arithmetic shift right; a word of all
\* zeros (0) or all ones (-1) ends the recursion
JsAnd(a, b) ==
  IF a = 0 \/ b = 0 THEN 0
  ELSE IF a = -1 THEN b
  ELSE IF b = -1 THEN a
  ELSE (a % 2) * (b % 2) + 2 * JsAnd(a \div 2, b \div 2)

\* ------------------------------------------------ life.wgsl: the resolver

\* u32(grid.x), u32(grid.y): the grid uniform holds the two dimensions
ShaderWidth == grid_size_x
ShaderHeight == grid_size_y

\* cellIndex with the reflected row left unreduced (no % height)
cellIndex_NoRowWrap(cx, cy) ==
  LET width == ShaderWidth
      height == ShaderHeight
      x == U32Mod(cx, width)
      y == U32Mod(cy, height)
  IN IF U32Ge(cx, width)
       THEN Sub32(Sub32(height \div 2, 1), y) * width + x
       ELSE y * width + x

\* cellIndex reflecting the row only beyond the right edge, not for the
\* column 0 - 1
cellIndex_TwistRightOnly(cx, cy) ==
  LET width == ShaderWidth
      height == ShaderHeight
      x == U32Mod(cx, width)
      y == U32Mod(cy, height)
  IN IF cx >= width
       THEN U32Mod(Sub32(Sub32(height \div 2, 1), y), height) * width + x
       ELSE y * width + x

\* fn cellIndex(cell: vec2u) -> u32, on the words cx, cy; y * width + x is
\* below 2^31 for every grid of the model
cellIndex(cx, cy) ==
  LET width == ShaderWidth
      height == ShaderHeight
      x == U32Mod(cx, width)
      y == U32Mod(cy, height)
  IN IF U32Ge(cx, width)
       THEN U32Mod(Sub32(Sub32(height \div 2, 1), y), height) * width + x
       ELSE y * width + x

\* a read of the cell one column to the right of the one asked for
cellActive_Shifted(In, x, y) == In[cellIndex(Add32(x, 1), y)]

\* fn cellActive(x, y): a read of cellStateIn through cellIndex
cellActive(In, x, y) == In[cellIndex(x, y)]

\* the sum of the 4 neighbours that share an edge with the cell
activeNeighbors_NoDiagonals(In, cx, cy) ==
    cellActive(In, Add32(cx, 1), cy)
  + cellActive(In, cx, Sub32(cy, 1))
  + cellActive(In, Sub32(cx, 1), cy)
  + cellActive(In, cx, Add32(cy, 1))

\* the sum of the 8 neighbours; cell.x+1, cell.y-1, ... are u32 expressions
activeNeighbors(In, cx, cy) ==
    cellActive(In, Add32(cx, 1), Add32(cy, 1))
  + cellActive(In, Add32(cx, 1), cy)
  + cellActive(In, Add32(cx, 1), Sub32(cy, 1))
  + cellActive(In, cx, Sub32(cy, 1))
  + cellActive(In, Sub32(cx, 1), Sub32(cy, 1))
  + cellActive(In, Sub32(cx, 1), cy)
  + cellActive(In, Sub32(cx, 1), Add32(cy, 1))
  + cellActive(In, cx, Add32(cy, 1))

\* the switch with case 2 storing 1 instead of the cell's own state
lifeRule_TwoIsBirth(n, cur) ==
  CASE n = 2 -> 1
    [] n = 3 -> 1
    [] OTHER -> 0

\* the switch with case 3 keeping the cell's own state
lifeRule_ThreeKeeps(n, cur) ==
  CASE n = 2 -> cur
    [] n = 3 -> cur
    [] OTHER -> 0

\* the switch with a default that kills only lonely cells
lifeRule_NoOvercrowding(n, cur) ==
  CASE n = 2 -> cur
    [] n = 3 -> 1
    [] n < 2 -> 0
    [] OTHER -> cur

\* a switch that stores the neighbour count itself
lifeRule_StoresCount(n, cur) == n

\* the switch of computeMain: the value stored for a cell holding `cur`
\* whose neighbours sum to n
lifeRule(n, cur) ==
  CASE n = 2 -> cur
    [] n = 3 -> 1
    [] OTHER -> 0

\* one invocation of computeMain for global_invocation_id (cx, cy): the output
\* buffer with cellStateOut[i] assigned (a store outside the array is dropped)
computeMain(In, Out, cx, cy) ==
  LET n == activeNeighbors(In, cx, cy)
      i == cellIndex(cx, cy)
  IN IF i \in DOMAIN Out
       THEN [Out EXCEPT ![i] = lifeRule(n, In[i])]
       ELSE Out

\* --------------------------------------------------- life.ts: the resolver

\* function isPowerOf2(n), on the integers the model constructs engines with
isPowerOf2(n) == n > 0 /\ JsAnd(n, n - 1) = 0

\* the JS number h / 2 - 1 - y as ToInt32 takes it: for an odd h the number
\* is k + 1/2 with k = (h - 1) / 2 - 1 - y, truncated toward zero
HalfMinus(h, y) ==
  IF h % 2 = 0
    THEN Sub32(Sub32(h \div 2, 1), y)
    ELSE LET k == Sub32(Sub32((h - 1) \div 2, 1), y)
         IN IF k >= 0 THEN k ELSE Add32(k, 1)

\* the row setCell writes: ((x & w) ? h / 2 - 1 - y : y) & (h - 1)
SetCellY0(x, y) ==
  JsAnd(IF JsAnd(x, grid_size_x) # 0 THEN HalfMinus(grid_size_y, y) ELSE y,
        grid_size_y - 1)

\* the column setCell writes: x & (w - 1)
SetCellX0(x) == JsAnd(x, grid_size_x - 1)

\* the index setCell writes: y0 * w + x0
SetCellIndex(x, y) == SetCellY0(x, y) * grid_size_x + SetCellX0(x)

\* setCell(x, y, state) on the scratch array (a typed array drops a store
\* outside its bounds)
setCell(arr, x, y, state) ==
  LET i == SetCellIndex(x, y)
  IN IF i \in DOMAIN arr THEN [arr EXCEPT ![i] = state] ELSE arr

\* n / d truncated toward zero, as ToInt32 truncates a fraction
TruncDiv(n, d) == IF n >= 0 THEN n \div d ELSE -((-n) \div d)

\* setCell(x, y, state) for a row given in eighths, y = y8 / 8 (main.ts
\* passes radialSegments / 8, a fraction for heights below 8): the & operator
\* truncates y, or h / 2 - 1 - y, toward zero
setCellEighths(arr, x, y8, state) ==
  LET row == IF JsAnd(x, grid_size_x) # 0
               THEN TruncDiv(4 * grid_size_y - 8 - y8, 8)
               ELSE TruncDiv(y8, 8)
      i == JsAnd(row, grid_size_y - 1) * grid_size_x + SetCellX0(x)
  IN IF i \in DOMAIN arr THEN [arr EXCEPT ![i] = state] ELSE arr

\* ------------------------------------------------- life.ts: the seeders

\* number of cells, the length of cellStateArray and of each GPU buffer
NumCells == grid_size_x * grid_size_y

\* clear(): cellStateArray.fill(0)
clear(arr) == [i \in DOMAIN arr |-> 0]

\* makeGlider(x, y, phase, xdir, ydir)
makeGlider(arr, x, y, phase, xdir, ydir) ==
  IF JsAnd(phase, 1) = 0
    THEN LET a1 == setCell(arr, x, y, 1)
             a2 == setCell(a1, x, y + ydir, 1)
             a3 == setCell(a2, x, y + 2 * ydir, 1)
             a4 == setCell(a3, x - xdir, y + 2 * ydir, 1)
         IN setCell(a4, x - 2 * xdir, y + ydir, 1)
    ELSE LET a1 == setCell(arr, x - 2 * xdir, y + 2 * ydir, 1)
             a2 == setCell(a1, x - xdir, y + 2 * ydir, 1)
             a3 == setCell(a2, x - xdir, y + ydir, 1)
             a4 == setCell(a3, x, y + ydir, 1)
         IN setCell(a4, x - 2 * xdir, y, 1)

RECURSIVE drawXStripeFrom(_, _, _)
\* the loop of drawXStripe from column x on
drawXStripeFrom(arr, y, x) ==
  IF x < 2 * grid_size_x
    THEN drawXStripeFrom(setCell(arr, x, y, 1), y, x + 1)
    ELSE arr

\* a stripe drawn once around only: the row of the first lap
drawXStripe_OnceAround(arr, y) ==
  [i \in DOMAIN arr |->
     IF i \div grid_size_x = SetCellY0(0, y) THEN 1 ELSE arr[i]]

\* drawXStripe(y): twice around
drawXStripe(arr, y) == drawXStripeFrom(arr, y, 0)

RECURSIVE drawXStripeEighthsFrom(_, _, _)
\* the loop of drawXStripe for a row given in eighths
drawXStripeEighthsFrom(arr, y8, x) ==
  IF x < 2 * grid_size_x
    THEN drawXStripeEighthsFrom(setCellEighths(arr, x, y8, 1), y8, x + 1)
    ELSE arr

RECURSIVE drawYStripeFrom(_, _, _)
\* the loop of drawYStripe from row y on
drawYStripeFrom(arr, x, y) ==
  IF y < grid_size_y
    THEN drawYStripeFrom(setCell(arr, x, y, 1), x, y + 1)
    ELSE arr

\* drawYStripe(x)
drawYStripe(arr, x) == drawYStripeFrom(arr, x, 0)

\* Math.random() < fraction, both in hundredths
RandomBelow(r, fraction) == r < fraction

\* the outcomes of Math.random() the model draws, in hundredths
RandomValues == {0, 50}

\* the probabilities the seeders are called with, in hundredths: main.ts
\* passes .3, .4, .5 and the default .2, all strictly between the outcomes
\* of RandomValues, also when halved by setRandomXStripes
Fractions == {30}

\* the body of setRandom(fraction) before upload(): draws[i] is the i-th
\* outcome of Math.random()
setRandomArray(arr, fraction, draws) ==
  [i \in DOMAIN arr |-> IF RandomBelow(draws[i], fraction) THEN 1 ELSE 0]

\* the body of setOneGlider() before upload()
setOneGliderArray(arr) == makeGlider(clear(arr), 2, 10, 0, -1, -1)

RECURSIVE setXStripesFrom(_, _)
\* the loop of setXStripes from row y on; y + h / 2 - 1 is a fraction only
\* when h = 1, where setCell's mask h - 1 = 0 maps every row to row 0
setXStripesFrom(arr, y) ==
  IF 4 * y < grid_size_y
    THEN setXStripesFrom(
           drawXStripe(drawXStripe(arr, y), y + (grid_size_y \div 2) - 1),
           y + 2)
    ELSE arr

\* the body of setXStripes() before upload()
setXStripesArray(arr) == setXStripesFrom(clear(arr), 0)

RECURSIVE setYStripesFrom(_, _)
\* the loop of setYStripes from column x on
setYStripesFrom(arr, x) ==
  IF x < grid_size_x
    THEN setYStripesFrom(drawYStripe(arr, x), x + 2)
    ELSE arr

\* the body of setYStripes() before upload()
setYStripesArray(arr) == setYStripesFrom(clear(arr), 0)

RECURSIVE setRandomXStripesFrom(_, _, _, _)
\* the loop of setRandomXStripes from row y on
setRandomXStripesFrom(arr, fraction, draws, y) ==
  IF y < grid_size_y
    THEN setRandomXStripesFrom(
           IF RandomBelow(2 * draws[y], fraction) THEN drawXStripe(arr, y) ELSE arr,
           fraction, draws, y + 1)
    ELSE arr

\* the body of setRandomXStripes(fraction) before upload(): a row is drawn
\* when Math.random() < fraction / 2
setRandomXStripesArray(arr, fraction, draws) ==
  setRandomXStripesFrom(clear(arr), fraction, draws, 0)

RECURSIVE setRandomYStripesFrom(_, _, _, _)
\* the loop of setRandomYStripes from column x on
setRandomYStripesFrom(arr, fraction, draws, x) ==
  IF x < grid_size_x
    THEN setRandomYStripesFrom(
           IF RandomBelow(draws[x], fraction) THEN drawYStripe(arr, x) ELSE arr,
           fraction, draws, x + 1)
    ELSE arr

\* the body of setRandomYStripes(fraction) before upload()
setRandomYStripesArray(arr, fraction, draws) ==
  setRandomYStripesFrom(clear(arr), fraction, draws, 0)

RECURSIVE setSquaresFrom(_, _, _)
\* the two loops of setSquares from (x, y) on, rows outermost
setSquaresFrom(arr, x, y) ==
  IF y >= grid_size_y - 2 THEN arr
  ELSE IF x >= grid_size_x - 2 THEN setSquaresFrom(arr, 0, y + 3)
  ELSE setSquaresFrom(
         setCell(setCell(setCell(setCell(arr, x, y, 1), x + 1, y, 1),
                         x + 1, y + 1, 1), x, y + 1, 1),
         x + 3, y)

\* the body of setSquares() before upload()
setSquaresArray(arr) == setSquaresFrom(clear(arr), 0, 0)

RECURSIVE setFullFrom(_, _)
\* the loop of setFull from column x on (no clear() first)
setFullFrom(arr, x) ==
  IF x < grid_size_x THEN setFullFrom(drawYStripe(arr, x), x + 1) ELSE arr

\* every second column filled, as setYStripes fills them
setFullArray_EvenColumns(arr) == setYStripesFrom(arr, 0)

\* the body of setFull() before upload()
setFullArray(arr) == setFullFrom(arr, 0)

\* the origins of the 8 x 8 squares of setRandomGliders, in loop order
GliderSquares ==
  { <<x, y>> \in (0 .. grid_size_x - 1) \X (0 .. grid_size_y - 1) :
      x % 8 = 0 /\ y % 8 = 0 }

\* the outcomes drawn for floor(random * 4) (offsets, phase) and for
\* floor(random * 2) * 2 - 1 (directions)
GliderOffsets == {0, 3}
GliderPhases == {0, 1}
GliderDirs == {-1, 1}

\* what the random source decides for one square: the coin and, when the
\* coin falls below the fraction, the offsets, the phase and the directions
\* (no further draw is made after a coin of 50, which is below no fraction
\* of the model: one record stands for it)
GliderDraws ==
  { d \in [coin : RandomValues, dx : GliderOffsets, dy : GliderOffsets,
           phase : GliderPhases, xdir : GliderDirs, ydir : GliderDirs] :
      d.coin = 0 \/
      (d.dx = 0 /\ d.dy = 0 /\ d.phase = 0 /\ d.xdir = 1 /\ d.ydir = 1) }

RECURSIVE setRandomGlidersFrom(_, _, _, _, _)
\* the two loops of setRandomGliders from square (x, y) on, columns outermost
setRandomGlidersFrom(arr, fraction, draws, x, y) ==
  IF x >= grid_size_x THEN arr
  ELSE IF y >= grid_size_y THEN setRandomGlidersFrom(arr, fraction, draws, x + 8, 0)
  ELSE LET d == draws[<<x, y>>]
       IN setRandomGlidersFrom(
            IF RandomBelow(d.coin, fraction)
              THEN makeGlider(arr, x + 2 + d.dx, y + 2 + d.dy, d.phase, d.xdir, d.ydir)
              ELSE arr,
            fraction, draws, x, y + 8)

\* the body of setRandomGliders(fraction) before upload()
setRandomGlidersArray(arr, fraction, draws) ==
  setRandomGlidersFrom(clear(arr), fraction, draws, 0, 0)

\* ------------------------------------------- life.ts: the engine and the GPU

\* const WORKGROUP_SIZE
WORKGROUP_SIZE == 8

Min(a, b) == IF a < b THEN a ELSE b

\* Math.ceil(a / b) for positive integers
CeilDiv(a, b) == (a + b - 1) \div b

\* the workgroup width without Math.min
workgroup_size_x_Fixed == WORKGROUP_SIZE

\* this.workgroup_size_x, this.workgroup_size_y
workgroup_size_x == Min(WORKGROUP_SIZE, grid_size_x)
workgroup_size_y == Min(WORKGROUP_SIZE, grid_size_y)

\* the arguments of dispatchWorkgroups
DispatchX == CeilDiv(grid_size_x, workgroup_size_x)
DispatchY == CeilDiv(grid_size_y, workgroup_size_y)

\* the global_invocation_id values of one dispatch: workgroup count times
\* workgroup size in each dimension
Invocations ==
  (0 .. DispatchX * workgroup_size_x - 1) \X (0 .. DispatchY * workgroup_size_y - 1)

\* bindGroups[k]: binding 1 (cellStateIn) and binding 2 (cellStateOut), as
\* indices into cellStateStorage
BindIn(k) == k
\* the output binding on the input buffer
BindOut_InPlace(k) == k
BindOut(k) == 1 - k

\* the grids an engine is constructed with in the model
Dims == { <<1, 1>>, <<2, 1>>, <<1, 2>> }

\* createBuffer: a new buffer is zero-filled
ZeroBuffer(n) == [i \in 0 .. n - 1 |-> 0]

\* the operations a queue holds
WriteOp(b, data) == [op |-> "write", buf |-> b, data |-> data]
ComputeOp(k) == [op |-> "compute", buf |-> k, data |-> << >>]
RenderOp(b, expect) == [op |-> "render", buf |-> b, data |-> expect]

NoProbe == [phase |-> "none"]

\* the constructor: the guard on the dimensions, step = 0, the scratch array,
\* two zero-filled buffers, currentCellState = cellStateStorage[0], and
\* setRandom(.3), whose upload is the first operation of the queue
Init ==
  /\ \E d \in Dims :
       /\ isPowerOf2(d[1]) /\ isPowerOf2(d[2])
       /\ grid_size_x = d[1]
       /\ grid_size_y = d[2]
       /\ \E draws \in [0 .. d[1] * d[2] - 1 -> RandomValues] :
            /\ cellStateArray = [i \in 0 .. d[1] * d[2] - 1 |->
                                   IF RandomBelow(draws[i], 30) THEN 1 ELSE 0]
            /\ queue = << WriteOp(0, cellStateArray) >>
       /\ cellStateStorage = [b \in {0, 1} |-> ZeroBuffer(d[1] * d[2])]
  /\ step = 0
  /\ currentCellState = 0
  /\ invoked = {}
  /\ updates = 0
  /\ bufKind = [b \in {0, 1} |-> "zero"]
  /\ renderSeen = "none"
  /\ staleSeen = FALSE
  /\ probe = NoProbe

\* upload() writing the buffer that is not current
upload_OtherBuffer(q, arr) == Append(q, WriteOp(1 - currentCellState, arr))

\* upload(): queue.writeBuffer(currentCellState, 0, cellStateArray) copies
\* the array into the queue at the call
upload(q, arr) == Append(q, WriteOp(currentCellState, arr))

\* a seeder: the scratch array it leaves, then upload()
Seed(arr) ==
  /\ Len(queue) < MaxQueue
  /\ cellStateArray' = arr
  /\ queue' = upload(queue, arr)
  /\ UNCHANGED << grid_size_x, grid_size_y, step, currentCellState,
                  cellStateStorage, invoked, updates, bufKind, renderSeen,
                  staleSeen, probe >>

SetEmpty == Seed(clear(cellStateArray))

SetFull == Seed(setFullArray(cellStateArray))

SetRandom ==
  \E fraction \in Fractions : \E draws \in [0 .. NumCells - 1 -> RandomValues] :
    Seed(setRandomArray(clear(cellStateArray), fraction, draws))

SetRandomGliders ==
  \E fraction \in Fractions : \E draws \in [GliderSquares -> GliderDraws] :
    Seed(setRandomGlidersArray(cellStateArray, fraction, draws))

SetOneGlider == Seed(setOneGliderArray(cellStateArray))

SetXStripes == Seed(setXStripesArray(cellStateArray))

SetYStripes == Seed(setYStripesArray(cellStateArray))

SetRandomXStripes ==
  \E fraction \in Fractions : \E draws \in [0 .. grid_size_y - 1 -> RandomValues] :
    Seed(setRandomXStripesArray(cellStateArray, fraction, draws))

SetRandomYStripes ==
  \E fraction \in Fractions : \E draws \in [0 .. grid_size_x - 1 -> RandomValues] :
    Seed(setRandomYStripesArray(cellStateArray, fraction, draws))

SetSquares == Seed(setSquaresArray(cellStateArray))

\* initLife('anttrack') of main.ts: setRandom(0.5), which uploads, two
\* drawXStripe calls on the scratch array, at rows radialSegments / 8 and
\* radialSegments / 8 - 1, then a second upload()
InitAntTrack ==
  /\ Len(queue) + 1 < MaxQueue
  /\ \E draws \in [0 .. NumCells - 1 -> RandomValues] :
       LET a0 == setRandomArray(clear(cellStateArray), 50, draws)
           a1 == drawXStripeEighthsFrom(a0, grid_size_y, 0)
           a2 == drawXStripeEighthsFrom(a1, grid_size_y - 8, 0)
       IN /\ cellStateArray' = a2
          /\ queue' = upload(upload(queue, a0), a2)
  /\ UNCHANGED << grid_size_x, grid_size_y, step, currentCellState,
                  cellStateStorage, invoked, updates, bufKind, renderSeen,
                  staleSeen, probe >>

\* this.step++ of update()
NextStep(s) == s + 1

\* update(): a compute pass with bindGroups[step % 2] is encoded, step is
\* incremented, the pass is submitted, currentCellState becomes
\* cellStateStorage[step % 2]; at most `limit` calls are explored
UpdateWithin(limit) ==
  /\ updates < limit
  /\ Len(queue) < MaxQueue
  /\ queue' = Append(queue, ComputeOp(step % 2))
  /\ step' = NextStep(step)
  /\ currentCellState' = step' % 2
  /\ updates' = updates + 1
  /\ UNCHANGED << grid_size_x, grid_size_y, cellStateArray, cellStateStorage,
                  invoked, bufKind, renderSeen, staleSeen, probe >>

\* update() taking currentCellState from the step before the increment
Update_SwapBeforeIncrement ==
  /\ updates < MaxStep
  /\ Len(queue) < MaxQueue
  /\ queue' = Append(queue, ComputeOp(step % 2))
  /\ step' = NextStep(step)
  /\ currentCellState' = step % 2
  /\ updates' = updates + 1
  /\ UNCHANGED << grid_size_x, grid_size_y, cellStateArray, cellStateStorage,
                  invoked, bufKind, renderSeen, staleSeen, probe >>

\* update() without queue.submit: the pass is encoded and dropped
Update_NoSubmit ==
  /\ updates < MaxStep
  /\ Len(queue) < MaxQueue
  /\ step' = NextStep(step)
  /\ currentCellState' = step' % 2
  /\ updates' = updates + 1
  /\ UNCHANGED << grid_size_x, grid_size_y, cellStateArray, cellStateStorage,
                  queue, invoked, bufKind, renderSeen, staleSeen, probe >>

\* update() as the step button and the render loop of main.ts call it
Update == UpdateWithin(MaxStep)

\* the generation computeMain derives from a buffer, cell by cell
NextGeneration(In) ==
  [i \in DOMAIN In |->
     lifeRule(activeNeighbors(In, i % grid_size_x, i \div grid_size_x), In[i])]

RECURSIVE AfterQueue(_, _)
\* the contents of the two buffers once the operations of q have executed in
\* submission order: a writeBuffer replaces its buffer, a compute pass leaves
\* the next generation in its output buffer, a render pass writes nothing
AfterQueue(q, st) ==
  IF q = << >> THEN st
  ELSE LET c == Head(q)
       IN AfterQueue(Tail(q),
            CASE c.op = "write" -> [st EXCEPT ![c.buf] = c.data]
              [] c.op = "compute" ->
                   [st EXCEPT ![BindOut(c.buf)] = NextGeneration(st[BindIn(c.buf)])]
              [] OTHER -> st)

\* the render loop of main.ts: a render pass whose bind group holds
\* life.currentCellState is encoded and submitted; the operation remembers
\* what the buffer holds at this place of the submission order
RenderFrame ==
  /\ Len(queue) < MaxQueue
  /\ queue' = Append(queue,
                RenderOp(currentCellState,
                         AfterQueue(queue, cellStateStorage)[currentCellState]))
  /\ UNCHANGED << grid_size_x, grid_size_y, step, currentCellState,
                  cellStateArray, cellStateStorage, invoked, updates, bufKind,
                  renderSeen, staleSeen, probe >>

\* the position in the queue of the operation the GPU executes: the queue
\* runs its operations in submission order
Executing == 1

\* the queue without the executed operation
Dequeue(q) == SubSeq(q, 1, Executing - 1) \o SubSeq(q, Executing + 1, Len(q))

\* the GPU executes a writeBuffer
GpuWriteBuffer ==
  /\ Len(queue) >= Executing
  /\ LET c == queue[Executing]
     IN /\ c.op = "write"
        /\ cellStateStorage' = [cellStateStorage EXCEPT ![c.buf] = c.data]
        /\ bufKind' = [bufKind EXCEPT ![c.buf] = "seeded"]
  /\ queue' = Dequeue(queue)
  /\ UNCHANGED << grid_size_x, grid_size_y, step, currentCellState,
                  cellStateArray, invoked, updates, renderSeen, staleSeen, probe >>

\* an invocation that reads its neighbours from the buffer it writes
Invoke_InPlace(st, k, cell) ==
  [st EXCEPT ![BindOut(k)] =
     computeMain(st[BindOut(k)], st[BindOut(k)], cell[1], cell[2])]

\* the two buffers after one invocation of computeMain under bindGroups[k]
Invoke(st, k, cell) ==
  [st EXCEPT ![BindOut(k)] =
     computeMain(st[BindIn(k)], st[BindOut(k)], cell[1], cell[2])]

\* the GPU runs one invocation of computeMain of the executing compute pass;
\* the invocations of a dispatch run once each, in any order
GpuInvocation ==
  /\ Len(queue) >= Executing
  /\ LET c == queue[Executing]
     IN /\ c.op = "compute"
        /\ \E cell \in Invocations \ invoked :
             /\ cellStateStorage' = Invoke(cellStateStorage, c.buf, cell)
             /\ invoked' = invoked \cup {cell}
        /\ staleSeen' = (staleSeen \/ cellStateStorage' # cellStateStorage)
        /\ bufKind' = [bufKind EXCEPT ![BindOut(c.buf)] = "partial"]
  /\ UNCHANGED << grid_size_x, grid_size_y, step, currentCellState,
                  cellStateArray, queue, updates, renderSeen, probe >>

\* the executing compute pass ends when all its invocations have run
GpuPassEnd ==
  /\ Len(queue) >= Executing
  /\ LET c == queue[Executing]
     IN /\ c.op = "compute"
        /\ invoked = Invocations
        /\ bufKind' = [bufKind EXCEPT ![BindOut(c.buf)] = "generation"]
  /\ queue' = Dequeue(queue)
  /\ invoked' = {}
  /\ staleSeen' = FALSE
  /\ UNCHANGED << grid_size_x, grid_size_y, step, currentCellState,
                  cellStateArray, cellStateStorage, updates, renderSeen, probe >>

\* the GPU executes a render pass: the vertex shader reads the bound buffer
GpuRender ==
  /\ Len(queue) >= Executing
  /\ LET c == queue[Executing]
     IN /\ c.op = "render"
        /\ renderSeen' = IF cellStateStorage[c.buf] = c.data
                           THEN bufKind[c.buf]
                           ELSE "overwritten"
  /\ queue' = Dequeue(queue)
  /\ UNCHANGED << grid_size_x, grid_size_y, step, currentCellState,
                  cellStateArray, cellStateStorage, invoked, updates, bufKind,
                  staleSeen, probe >>

Next ==
  \/ SetEmpty
  \/ SetFull
  \/ SetRandom
  \/ SetRandomGliders
  \/ SetOneGlider
  \/ SetXStripes
  \/ SetYStripes
  \/ SetRandomXStripes
  \/ SetRandomYStripes
  \/ SetSquares
  \/ InitAntTrack
  \/ Update
  \/ RenderFrame
  \/ GpuWriteBuffer
  \/ GpuInvocation
  \/ GpuPassEnd
  \/ GpuRender

Spec == Init /\ [][Next]_vars

\* ------------------------------------------------ one dispatch, larger grids

\* the grids a single dispatch is run on: up to two workgroups a side
PassDims ==
  { <<1, 1>>, <<2, 1>>, <<1, 2>>, <<2, 2>>, <<4, 2>>, <<2, 4>>, <<4, 4>>,
    <<8, 2>>, <<2, 8>>, <<16, 1>>, <<1, 16>>, <<16, 2>>, <<2, 16>> }

\* the cells next to the seam x = 0 / x = width, in the first four rows
SeamWindow(w, h) ==
  { i \in 0 .. w * h - 1 :
      (i % w) \in {0, 1 % w, w - 1} /\ (i \div w) < 4 }

\* the input buffers of a dispatch: every pattern whose live cells lie in
\* the seam window
PassPatterns(w, h) ==
  { [i \in 0 .. w * h - 1 |-> IF i \in SeamWindow(w, h) THEN q[i] ELSE 0] :
      q \in [SeamWindow(w, h) -> {0, 1}] }

\* what the output buffer holds before the dispatch: zeros (a new buffer),
\* ones, or a copy of the input
StalePatterns(p) ==
  { ZeroBuffer(Cardinality(DOMAIN p)), [i \in DOMAIN p |-> 1], p }

\* the engine one update() after construction, for any seeded pattern in
\* buffer A and any stale contents in buffer B
InitPass ==
  /\ \E d \in PassDims :
       /\ isPowerOf2(d[1]) /\ isPowerOf2(d[2])
       /\ grid_size_x = d[1]
       /\ grid_size_y = d[2]
       /\ \E p \in PassPatterns(d[1], d[2]) : \E o \in StalePatterns(p) :
            /\ cellStateArray = p
            /\ cellStateStorage = [b \in {0, 1} |-> IF b = 0 THEN p ELSE o]
            /\ bufKind = [b \in {0, 1} |->
                            IF b = 1 /\ o = ZeroBuffer(d[1] * d[2])
                              THEN "zero" ELSE "seeded"]
  /\ step = 1
  /\ currentCellState = 1
  /\ queue = << ComputeOp(0) >>
  /\ invoked = {}
  /\ updates = 1
  /\ renderSeen = "none"
  /\ staleSeen = FALSE
  /\ probe = NoProbe

\* the workgroups of one dispatch
Workgroups == (0 .. DispatchX - 1) \X (0 .. DispatchY - 1)

\* the invocations of workgroup g
WorkgroupCells(g) ==
  { c \in Invocations :
      /\ c[1] \div workgroup_size_x = g[1]
      /\ c[2] \div workgroup_size_y = g[2] }

\* the buffers after the invocations of S have all run under bindGroups[k]:
\* every invocation reads the input binding, which no invocation writes, and
\* stores to its cell of the output binding, so a cell of the output buffer
\* holds what the invocation resolving to it stored (were two invocations
\* to resolve to one cell, one of their stores), and any other cell what
\* it held
InvokeAll(st, k, S) ==
  LET stores == { << cellIndex(c[1], c[2]), c >> : c \in S }
  IN [st EXCEPT ![BindOut(k)] =
        [i \in DOMAIN st[BindOut(k)] |->
           IF \E t \in stores : t[1] = i
             THEN LET t == CHOOSE t \in stores : t[1] = i
                  IN Invoke(st, k, t[2])[BindOut(k)][i]
             ELSE st[BindOut(k)][i]]]

\* the GPU runs one workgroup of the executing compute pass; the workgroups
\* of a dispatch run once each, in any order
GpuWorkgroup ==
  /\ Len(queue) >= Executing
  /\ LET c == queue[Executing]
     IN /\ c.op = "compute"
        /\ \E g \in Workgroups :
             /\ WorkgroupCells(g) \cap invoked = {}
             /\ cellStateStorage' =
                  InvokeAll(cellStateStorage, c.buf, WorkgroupCells(g))
             /\ invoked' = invoked \cup WorkgroupCells(g)
        /\ staleSeen' = (staleSeen \/ cellStateStorage' # cellStateStorage)
        /\ bufKind' = [bufKind EXCEPT ![BindOut(c.buf)] = "partial"]
  /\ UNCHANGED << grid_size_x, grid_size_y, step, currentCellState,
                  cellStateArray, queue, updates, renderSeen, probe >>

NextPass ==
  \/ GpuWorkgroup
  \/ GpuPassEnd

SpecPass == InitPass /\ [][NextPass]_vars

\* --------------------------------------------------- the resolvers, probed

\* the grids the resolvers are probed on
IndexDims == {1, 2, 4, 8} \X {1, 2, 4, 8}

\* the coordinates probed along a dimension of size d, as 32-bit words:
\* around 0 and the first multiples of d, and at both ends of the 32-bit
\* range (the words the shader reads as the largest u32 values are the
\* negative ones)
ProbeCoords(d) ==
     (-(ProbeBands * d) - 1 .. (ProbeBands + 1) * d + 1)
  \cup { MinInt32 + k : k \in 0 .. 2 * d }
  \cup { MaxInt32 - k : k \in 0 .. 2 * d }

\* a grid and a coordinate pair to resolve
InitIndex ==
  /\ \E d \in IndexDims :
       /\ isPowerOf2(d[1]) /\ isPowerOf2(d[2])
       /\ grid_size_x = d[1]
       /\ grid_size_y = d[2]
       /\ \E x \in ProbeCoords(d[1]) : \E y \in ProbeCoords(d[2]) :
            probe = [phase |-> "coordinate", x |-> x, y |-> y]
       /\ cellStateArray = ZeroBuffer(d[1] * d[2])
       /\ cellStateStorage = [b \in {0, 1} |-> ZeroBuffer(d[1] * d[2])]
  /\ step = 0
  /\ currentCellState = 0
  /\ queue = << >>
  /\ invoked = {}
  /\ updates = 0
  /\ bufKind = [b \in {0, 1} |-> "zero"]
  /\ renderSeen = "none"
  /\ staleSeen = FALSE

\* both resolvers applied to the probed pair (x, y), to the pair one and two
\* grid widths further in x, and to the pair with the row reflected to
\* height / 2 - 1 - y: cellIndex on the u32 words, setCell on the JS numbers
ResolveProbe ==
  /\ probe.phase = "coordinate"
  /\ LET x == probe.x
         y == probe.y
         w == grid_size_x
         h == grid_size_y
     IN probe' =
          [phase |-> "resolved", x |-> x, y |-> y,
           shader |-> cellIndex(x, y),
           shaderW |-> cellIndex(Add32(x, w), y),
           shaderWW |-> cellIndex(Add32(x, 2 * w), y),
           shaderR |-> cellIndex(x, Sub32(Sub32(h \div 2, 1), y)),
           seeder |-> SetCellIndex(x, y),
           seederW |-> SetCellIndex(Add32(x, w), y),
           seederWW |-> SetCellIndex(Add32(x, 2 * w), y),
           seederR |-> SetCellIndex(x, HalfMinus(h, y))]
  /\ UNCHANGED << grid_size_x, grid_size_y, step, currentCellState,
                  cellStateArray, cellStateStorage, queue, invoked, updates,
                  bufKind, renderSeen, staleSeen >>

NextIndex == ResolveProbe

SpecIndex == InitIndex /\ [][NextIndex]_vars

\* ------------------------------------- updates in every invocation order

\* the grids whose updates run invocation by invocation
OrderDims == { <<2, 2>>, <<4, 1>>, <<1, 4>> }

\* an engine whose current buffer A holds an uploaded pattern p, any pattern
\* of the grid, and whose buffer B holds any stale contents; no update made
InitOrder ==
  /\ \E d \in OrderDims :
       /\ isPowerOf2(d[1]) /\ isPowerOf2(d[2])
       /\ grid_size_x = d[1]
       /\ grid_size_y = d[2]
       /\ \E p \in [0 .. d[1] * d[2] - 1 -> {0, 1}] : \E o \in StalePatterns(p) :
            /\ cellStateArray = p
            /\ cellStateStorage = [b \in {0, 1} |-> IF b = 0 THEN p ELSE o]
            /\ bufKind = [b \in {0, 1} |->
                            IF b = 1 /\ o = ZeroBuffer(d[1] * d[2])
                              THEN "zero" ELSE "seeded"]
  /\ step = 0
  /\ currentCellState = 0
  /\ queue = << >>
  /\ invoked = {}
  /\ updates = 0
  /\ renderSeen = "none"
  /\ staleSeen = FALSE
  /\ probe = NoProbe

NextOrder ==
  \/ Update
  \/ GpuInvocation
  \/ GpuPassEnd

SpecOrder == InitOrder /\ [][NextOrder]_vars

\* -------------------------------------------------- the constructor, probed

\* a field the constructor has not assigned, a buffer it has not created
Unassigned == -1

\* isPowerOf2 without the test n === Math.floor(n)
isPowerOf2Halves_NoFloor(n2) ==
  /\ n2 > 0
  /\ JsAnd(TruncDiv(n2, 2), TruncDiv(n2 - 2, 2)) = 0

\* function isPowerOf2(n) on any number n = n2 / 2, whole or not: & takes
\* n and n - 1 through ToInt32, which drops the fraction
isPowerOf2Halves(n2) ==
  /\ n2 > 0
  /\ JsAnd(TruncDiv(n2, 2), TruncDiv(n2 - 2, 2)) = 0
  /\ n2 % 2 = 0

\* the arguments of new ToroidalLife(device, tubularSegments,
\* radialSegments), in halves, before the constructor has run
InitConstruct ==
  /\ \E w2, h2 \in -4 .. 2 * MaxArg :
       probe = [phase |-> "new", w2 |-> w2, h2 |-> h2]
  /\ grid_size_x = Unassigned
  /\ grid_size_y = Unassigned
  /\ step = Unassigned
  /\ currentCellState = Unassigned
  /\ cellStateArray = << >>
  /\ cellStateStorage = << >>
  /\ queue = << >>
  /\ invoked = {}
  /\ updates = 0
  /\ bufKind = [b \in {0, 1} |-> "none"]
  /\ renderSeen = "none"
  /\ staleSeen = FALSE

\* the constructor: it throws at its first statement when a dimension is
\* not a power of 2, and otherwise assigns the fields, creates the buffers
\* and calls setRandom(.3) (here with one outcome of Math.random() for all
\* the cells)
Construct ==
  /\ probe.phase = "new"
  /\ IF ~isPowerOf2Halves(probe.w2) \/ ~isPowerOf2Halves(probe.h2)
       THEN /\ probe' = [probe EXCEPT !.phase = "thrown"]
            /\ UNCHANGED << grid_size_x, grid_size_y, step, currentCellState,
                            cellStateArray, cellStateStorage, queue, bufKind >>
       ELSE LET w == probe.w2 \div 2
                h == probe.h2 \div 2
            IN /\ probe' = [probe EXCEPT !.phase = "constructed"]
               /\ grid_size_x' = w
               /\ grid_size_y' = h
               /\ step' = 0
               /\ currentCellState' = 0
               /\ cellStateStorage' = [b \in {0, 1} |-> ZeroBuffer(w * h)]
               /\ bufKind' = [b \in {0, 1} |-> "zero"]
               /\ \E r \in RandomValues :
                    /\ cellStateArray' =
                         setRandomArray(ZeroBuffer(w * h), 30,
                                        [i \in 0 .. w * h - 1 |-> r])
                    /\ queue' = << WriteOp(0, cellStateArray') >>
  /\ UNCHANGED << invoked, updates, renderSeen, staleSeen >>

NextConstruct == Construct

SpecConstruct == InitConstruct /\ [][NextConstruct]_vars

\* --------------------------------------------- the random seeders, probed

\* an engine whose current buffer A holds an uploaded pattern (empty, full
\* or alternating), and a call of a seeder about to be made with a
\* probability, in hundredths, inside or outside [0, 1] (setFull takes
\* none); the grids of 8 x 8 and more are seeded with gliders only
InitSeed ==
  /\ \E d \in { <<1, 1>>, <<2, 2>>, <<4, 2>>, <<2, 8>>, <<4, 4>>,
                 <<8, 8>>, <<16, 8>> } :
       /\ isPowerOf2(d[1]) /\ isPowerOf2(d[2])
       /\ grid_size_x = d[1]
       /\ grid_size_y = d[2]
       /\ \E v \in {0, 1, 2} :
            /\ cellStateArray =
                 [i \in 0 .. d[1] * d[2] - 1 |-> IF v = 2 THEN i % 2 ELSE v]
            /\ cellStateStorage =
                 [b \in {0, 1} |-> IF b = 0 THEN cellStateArray
                                             ELSE ZeroBuffer(d[1] * d[2])]
            /\ \E sd \in { "setRandom", "setRandomGliders", "setFull",
                            "setRandomXStripes", "setRandomYStripes" } :
               \E f \in { -50, 0, 30, 100, 150 } :
                 /\ d[1] * d[2] <= 16 \/ sd = "setRandomGliders"
                 /\ sd = "setFull" => f = 100
                 /\ probe = [phase |-> "call", seeder |-> sd, fraction |-> f,
                             before |-> cellStateArray]
  /\ step = 0
  /\ currentCellState = 0
  /\ queue = << >>
  /\ invoked = {}
  /\ updates = 0
  /\ bufKind = [b \in {0, 1} |-> IF b = 0 THEN "seeded" ELSE "zero"]
  /\ renderSeen = "none"
  /\ staleSeen = FALSE

\* the probed call: the seeder runs with the probability as given (none of
\* the randomized four tests it) and returns after upload(); setRandom draws one
\* outcome of Math.random() for all the cells here
SeedCall ==
  /\ probe.phase = "call"
  /\ LET f == probe.fraction
     IN \E arr \in
          CASE probe.seeder = "setRandom" ->
                 { setRandomArray(clear(cellStateArray), f,
                                  [i \in 0 .. NumCells - 1 |-> r]) :
                     r \in RandomValues }
            [] probe.seeder = "setRandomGliders" ->
                 { setRandomGlidersArray(cellStateArray, f, draws) :
                     draws \in [GliderSquares -> GliderDraws] }
            [] probe.seeder = "setFull" -> { setFullArray(cellStateArray) }
            [] probe.seeder = "setRandomXStripes" ->
                 { setRandomXStripesArray(cellStateArray, f, draws) :
                     draws \in [0 .. grid_size_y - 1 -> RandomValues] }
            [] OTHER ->
                 { setRandomYStripesArray(cellStateArray, f, draws) :
                     draws \in [0 .. grid_size_x - 1 -> RandomValues] } :
          /\ cellStateArray' = arr
          /\ queue' = upload(queue, arr)
  /\ probe' = [probe EXCEPT !.phase = "returned"]
  /\ UNCHANGED << grid_size_x, grid_size_y, step, currentCellState,
                  cellStateStorage, invoked, updates, bufKind, renderSeen,
                  staleSeen >>

NextSeed ==
  \/ SeedCall
  \/ GpuWriteBuffer

SpecSeed == InitSeed /\ [][NextSeed]_vars

\* ------------------------------------------------------- a stripe, probed

\* a constructed engine and a row y, inside the grid or up to two heights
\* away from it, at which a stripe is about to be drawn
InitStripe ==
  /\ \E d \in {1, 2, 4, 8} \X {1, 2, 4, 8, 16} :
       /\ isPowerOf2(d[1]) /\ isPowerOf2(d[2])
       /\ grid_size_x = d[1]
       /\ grid_size_y = d[2]
       /\ \E y \in -(2 * d[2]) .. 2 * d[2] :
            probe = [phase |-> "row", y |-> y]
       /\ \E v \in {0, 1} :
            cellStateArray = [i \in 0 .. d[1] * d[2] - 1 |-> v]
       /\ cellStateStorage = [b \in {0, 1} |-> ZeroBuffer(d[1] * d[2])]
  /\ step = 0
  /\ currentCellState = 0
  /\ queue = << >>
  /\ invoked = {}
  /\ updates = 0
  /\ bufKind = [b \in {0, 1} |-> "zero"]
  /\ renderSeen = "none"
  /\ staleSeen = FALSE

\* clear() then drawXStripe(y), as setXStripes and setRandomXStripes call
\* them, on the scratch array
DrawStripe ==
  /\ probe.phase = "row"
  /\ cellStateArray' = drawXStripe(clear(cellStateArray), probe.y)
  /\ probe' = [probe EXCEPT !.phase = "drawn"]
  /\ UNCHANGED << grid_size_x, grid_size_y, step, currentCellState,
                  cellStateStorage, queue, invoked, updates, bufKind,
                  renderSeen, staleSeen >>

NextStripe == DrawStripe

SpecStripe == InitStripe /\ [][NextStripe]_vars

\* ---------------------------------------- scenarios: a glider and a ring

\* clear(), then setCell for the 8 cells around (3, 3), then upload(): the
\* 3 x 3 block with a dead centre
RingArray(old) ==
  LET a1 == setCell(clear(old), 2, 2, 1)
      a2 == setCell(a1, 3, 2, 1)
      a3 == setCell(a2, 4, 2, 1)
      a4 == setCell(a3, 2, 3, 1)
      a5 == setCell(a4, 4, 3, 1)
      a6 == setCell(a5, 2, 4, 1)
      a7 == setCell(a6, 3, 4, 1)
  IN setCell(a7, 4, 4, 1)

\* an engine just constructed on a grid of 8 or 16 cells a side: the upload
\* of the constructor's setRandom(.3) is in the queue (one outcome of
\* Math.random() for all the cells)
InitScenario ==
  /\ \E d \in {8, 16} \X {8, 16} :
       /\ isPowerOf2(d[1]) /\ isPowerOf2(d[2])
       /\ grid_size_x = d[1]
       /\ grid_size_y = d[2]
       /\ \E r \in RandomValues :
            /\ cellStateArray =
                 setRandomArray(ZeroBuffer(d[1] * d[2]), 30,
                                [i \in 0 .. d[1] * d[2] - 1 |-> r])
            /\ queue = << WriteOp(0, cellStateArray) >>
       /\ cellStateStorage = [b \in {0, 1} |-> ZeroBuffer(d[1] * d[2])]
  /\ step = 0
  /\ currentCellState = 0
  /\ invoked = {}
  /\ updates = 0
  /\ bufKind = [b \in {0, 1} |-> "zero"]
  /\ renderSeen = "none"
  /\ staleSeen = FALSE
  /\ probe = NoProbe

\* the scenario patterns are seeded before the first update()
SeedGlider == updates = 0 /\ SetOneGlider

SeedRing == updates = 0 /\ Seed(RingArray(cellStateArray))

UpdateScenario == UpdateWithin(GliderSteps)

NextScenario ==
  \/ SeedGlider
  \/ SeedRing
  \/ UpdateScenario
  \/ GpuWriteBuffer
  \/ GpuWorkgroup
  \/ GpuPassEnd

SpecScenario == InitScenario /\ [][NextScenario]_vars

\* ------------------------------------------------ the neighbourhood, probed

\* the number of the 8 neighbour lookups of computeMain for the cell of flat
\* index a that cellIndex resolves to index b
NeighbourCount(a, b) ==
  LET cx == a % grid_size_x
      cy == a \div grid_size_x
  IN Cardinality(
       { o \in ({-1, 0, 1} \X {-1, 0, 1}) \ { <<0, 0>> } :
           cellIndex(Add32(cx, o[1]), Add32(cy, o[2])) = b })

\* a grid and a pair of its cells
InitNeighbours ==
  /\ \E d \in ({1, 2, 4, 8} \X {1, 2, 4, 8}) \cup { <<16, 2>>, <<2, 16>> } :
       /\ isPowerOf2(d[1]) /\ isPowerOf2(d[2])
       /\ grid_size_x = d[1]
       /\ grid_size_y = d[2]
       /\ \E a, b \in 0 .. d[1] * d[2] - 1 :
            probe = [phase |-> "pair", a |-> a, b |-> b]
       /\ cellStateArray = ZeroBuffer(d[1] * d[2])
       /\ cellStateStorage = [k \in {0, 1} |-> ZeroBuffer(d[1] * d[2])]
  /\ step = 0
  /\ currentCellState = 0
  /\ queue = << >>
  /\ invoked = {}
  /\ updates = 0
  /\ bufKind = [k \in {0, 1} |-> "zero"]
  /\ renderSeen = "none"
  /\ staleSeen = FALSE

\* the neighbour lookups of the two cells are resolved and counted
CountNeighbours ==
  /\ probe.phase = "pair"
  /\ probe' = [phase |-> "counted", a |-> probe.a, b |-> probe.b,
                ab |-> NeighbourCount(probe.a, probe.b),
                ba |-> NeighbourCount(probe.b, probe.a)]
  /\ UNCHANGED << grid_size_x, grid_size_y, step, currentCellState,
                  cellStateArray, cellStateStorage, queue, invoked, updates,
                  bufKind, renderSeen, staleSeen >>

NextNeighbours == CountNeighbours

SpecNeighbours == InitNeighbours /\ [][NextNeighbours]_vars

\* ------------------------------------------------- a lone glider, travelling

\* an engine on a grid of 8 or 16 cells a side after setOneGlider(): the
\* glider is in the scratch array and, its upload executed, in buffer A
InitGlider ==
  /\ \E d \in { <<8, 8>>, <<16, 8>>, <<8, 16>> } :
       /\ isPowerOf2(d[1]) /\ isPowerOf2(d[2])
       /\ grid_size_x = d[1]
       /\ grid_size_y = d[2]
       /\ cellStateArray = setOneGliderArray(ZeroBuffer(d[1] * d[2]))
       /\ cellStateStorage =
            [b \in {0, 1} |-> IF b = 0 THEN cellStateArray
                                        ELSE ZeroBuffer(d[1] * d[2])]
  /\ step = 0
  /\ currentCellState = 0
  /\ queue = << >>
  /\ invoked = {}
  /\ updates = 0
  /\ bufKind = [b \in {0, 1} |-> IF b = 0 THEN "seeded" ELSE "zero"]
  /\ renderSeen = "none"
  /\ staleSeen = FALSE
  /\ probe = NoProbe

UpdateGlider == UpdateWithin(GliderRun)

NextGlider ==
  \/ UpdateGlider
  \/ GpuWorkgroup
  \/ GpuPassEnd

SpecGlider == InitGlider /\ [][NextGlider]_vars

\* ------------------------------------------- isPowerOf2 on any number

\* function isPowerOf2(n) on the number n = hi * 2^32 + u + half / 2, where
\* hi >= 0, u is the unsigned value of the word lo and half is 0 or 1 (every
\* such n is below 2^53 and exact): n & (n - 1) takes both operands through
\* ToInt32, which drops the fraction and keeps the low 32 bits, lo and lo - 1
isPowerOf2Wide(hi, lo, half) ==
  /\ (hi > 0 \/ lo # 0 \/ half # 0)
  /\ JsAnd(lo, Sub32(lo, 1)) = 0
  /\ half = 0

\* a number about to be tested, the engine not constructed
InitPow ==
  /\ \E hi \in 0 .. MaxHigh, half \in {0, 1},
        lo \in (0 .. 17) \cup { 2^30 - 1, 2^30, 2^30 + 1, MaxInt32,
                                MinInt32, MinInt32 + 1, MinInt32 + 2^30,
                                -2, -1 } :
       probe = [phase |-> "number", hi |-> hi, lo |-> lo, half |-> half]
  /\ grid_size_x = Unassigned
  /\ grid_size_y = Unassigned
  /\ step = Unassigned
  /\ currentCellState = Unassigned
  /\ cellStateArray = << >>
  /\ cellStateStorage = << >>
  /\ queue = << >>
  /\ invoked = {}
  /\ updates = 0
  /\ bufKind = [b \in {0, 1} |-> "none"]
  /\ renderSeen = "none"
  /\ staleSeen = FALSE

\* one call isPowerOf2(n), its result kept
TestPow ==
  /\ probe.phase = "number"
  /\ probe' = [phase |-> "tested", hi |-> probe.hi, lo |-> probe.lo,
                half |-> probe.half,
                result |-> isPowerOf2Wide(probe.hi, probe.lo, probe.half)]
  /\ UNCHANGED << grid_size_x, grid_size_y, step, currentCellState,
                  cellStateArray, cellStateStorage, queue, invoked, updates,
                  bufKind, renderSeen, staleSeen >>

NextPow == TestPow

SpecPow == InitPow /\ [][NextPow]_vars

\* ------------------------------------- main.ts and videoWorker.ts: recording

\* const MAX_QUEUE_SIZE = 8
MAX_QUEUE_SIZE == 8

\* The page and the worker are the fields of the record probe. Page:
\* savingVideo, videoQueueReady and resolveVideoQueueReady (0 for undefined,
\* else the number of the promise), promises (created so far), resolved
\* (promises resolved), loop and awaited (the render loop's position and the
\* promise it awaits), clicks and frames (counts), frameLimit (the frames
\* the model lets the loop capture). Worker: encoder, output,
\* videoSource (0 for null, else the number of the startRecording call that
\* created the object), isRecording, frameCount, queueFull, encodeQueueSize
\* (of each encoder), starts (calls of startRecording so far), tasks (the
\* suspended async calls), log (what each stopRecording did to which
\* recording's objects), stopped ('stopped' messages per recording) and last
\* (the last encodeFrame call). toWorker and toMain are the two message
\* channels, delivered in order.
VideoIdle ==
          [phase |-> "video",
              savingVideo |-> FALSE, videoQueueReady |-> 0,
              resolveVideoQueueReady |-> 0, promises |-> 0, resolved |-> {},
              loop |-> "running", awaited |-> 0, clicks |-> 0, frames |-> 0,
              frameLimit |-> MaxShots,
              toWorker |-> << >>, toMain |-> << >>,
              encoder |-> 0, output |-> 0, videoSource |-> 0,
              isRecording |-> FALSE, frameCount |-> 0, queueFull |-> FALSE,
              encodeQueueSize |-> [e \in 1 .. MaxClicks |-> 0],
              starts |-> 0, tasks |-> {}, log |-> {},
              stopped |-> [r \in 0 .. MaxClicks |-> 0],
              last |-> [path |-> "none"]]

\* the page loaded and the worker created, nothing recorded yet
InitVideo ==
  /\ probe = VideoIdle
  /\ grid_size_x = Unassigned
  /\ grid_size_y = Unassigned
  /\ step = Unassigned
  /\ currentCellState = Unassigned
  /\ cellStateArray = << >>
  /\ cellStateStorage = << >>
  /\ queue = << >>
  /\ invoked = {}
  /\ updates = 0
  /\ bufKind = [b \in {0, 1} |-> "none"]
  /\ renderSeen = "none"
  /\ staleSeen = FALSE

\* a step of the page or the worker leaves the record w; the engine is not
\* involved
SetVideo(w) ==
  /\ probe' = w
  /\ UNCHANGED << grid_size_x, grid_size_y, step, currentCellState,
                  cellStateArray, cellStateStorage, queue, invoked, updates,
                  bufKind, renderSeen, staleSeen >>

\* async function startStopVideo(): a click on the record button; the file
\* picker either gives a handle or throws (the user aborted)
StartStopVideo ==
  /\ probe.clicks < MaxClicks
  /\ Len(probe.toWorker) < MaxInFlight
  /\ IF probe.savingVideo
       THEN SetVideo([probe EXCEPT !.clicks = @ + 1,
                                   !.savingVideo = FALSE,
                                   !.toWorker = Append(@, "stop")])
       ELSE \E picked \in BOOLEAN :
              IF picked
                THEN SetVideo([probe EXCEPT !.clicks = @ + 1,
                                            !.savingVideo = TRUE,
                                            !.toWorker = Append(@, "start")])
                ELSE SetVideo([probe EXCEPT !.clicks = @ + 1,
                                            !.savingVideo = FALSE])

\* the videoWorker 'message' handler of the page
MainMessage ==
  /\ probe.toMain # << >>
  /\ LET m == Head(probe.toMain)
         w == [probe EXCEPT !.toMain = Tail(@)]
     IN CASE m = "queueFull" ->
               SetVideo([w EXCEPT !.promises = @ + 1,
                                  !.videoQueueReady = probe.promises + 1,
                                  !.resolveVideoQueueReady = probe.promises + 1])
          [] m = "queueNotFull" ->
               IF w.resolveVideoQueueReady # 0
                 THEN SetVideo([w EXCEPT
                        !.videoQueueReady = 0,
                        !.resolved = @ \cup {w.resolveVideoQueueReady},
                        !.resolveVideoQueueReady = 0])
                 ELSE SetVideo(w)
          [] m = "error" -> SetVideo([w EXCEPT !.savingVideo = FALSE])
          [] OTHER -> SetVideo(w)

\* the render loop, from the frame capture to its next await: with
\* savingVideo it makes a VideoFrame and either awaits videoQueueReady or
\* posts the frame at once
LoopCapture ==
  /\ probe.loop = "running"
  /\ probe.savingVideo
  /\ probe.frames < probe.frameLimit
  /\ Len(probe.toWorker) < MaxInFlight
  /\ IF probe.videoQueueReady # 0
       THEN SetVideo([probe EXCEPT !.frames = @ + 1,
                                   !.loop = "awaiting",
                                   !.awaited = probe.videoQueueReady])
       ELSE SetVideo([probe EXCEPT !.frames = @ + 1,
                                   !.toWorker = Append(@, "frame")])

\* the render loop resumed by the promise it awaits: it posts the frame
LoopResume ==
  /\ probe.loop = "awaiting"
  /\ probe.awaited \in probe.resolved
  /\ Len(probe.toWorker) < MaxInFlight
  /\ SetVideo([probe EXCEPT !.loop = "running",
                            !.awaited = 0,
                            !.toWorker = Append(@, "frame")])

\* encodeFrame counting the frame before encoder.encode is called, so that
\* a frame whose encode throws is counted too
encodeFrame_CountsFirst(w, throws) ==
  IF w.encoder = 0 \/ ~w.isRecording
    THEN [w EXCEPT !.last = [path |-> "dropped", closes |-> 1,
                             before |-> w.frameCount, after |-> w.frameCount,
                             error |-> FALSE]]
    ELSE IF throws
      THEN [w EXCEPT !.toMain = Append(@, "error"),
                     !.frameCount = @ + 1,
                     !.last = [path |-> "threw", closes |-> 0 + 1,
                               before |-> w.frameCount,
                               after |-> w.frameCount + 1, error |-> TRUE]]
      ELSE LET size == w.encodeQueueSize[w.encoder] + 1
               full == size >= MAX_QUEUE_SIZE
           IN [w EXCEPT !.encodeQueueSize[w.encoder] = size,
                        !.frameCount = @ + 1,
                        !.queueFull = IF full THEN TRUE ELSE @,
                        !.toMain = IF full THEN Append(@, "queueFull") ELSE @,
                        !.last = [path |-> "encoded", closes |-> 0 + 1,
                                  before |-> w.frameCount,
                                  after |-> w.frameCount + 1,
                                  error |-> FALSE]]

\* function encodeFrame(frame), encoder.encode throwing or not; last keeps
\* the path taken, the number of frame.close() calls, frameCount before and
\* after, and whether 'error' was posted
encodeFrame(w, throws) ==
  IF w.encoder = 0 \/ ~w.isRecording
    THEN [w EXCEPT !.last = [path |-> "dropped", closes |-> 1,
                             before |-> w.frameCount, after |-> w.frameCount,
                             error |-> FALSE]]
    ELSE IF throws
      THEN [w EXCEPT !.toMain = Append(@, "error"),
                     !.last = [path |-> "threw", closes |-> 0 + 1,
                               before |-> w.frameCount,
                               after |-> w.frameCount, error |-> TRUE]]
      ELSE LET size == w.encodeQueueSize[w.encoder] + 1
               full == size >= MAX_QUEUE_SIZE
           IN [w EXCEPT !.encodeQueueSize[w.encoder] = size,
                        !.frameCount = @ + 1,
                        !.queueFull = IF full THEN TRUE ELSE @,
                        !.toMain = IF full THEN Append(@, "queueFull") ELSE @,
                        !.last = [path |-> "encoded", closes |-> 0 + 1,
                                  before |-> w.frameCount,
                                  after |-> w.frameCount + 1,
                                  error |-> FALSE]]

\* stopRecording by the stop of recording by, after its encoder block: the
\* video source is closed and nulled, and the output, if any, finalized (the
\* call suspends) or else 'stopped' is posted
StopAfterEncoder(w, by) ==
  LET v == IF w.videoSource # 0
             THEN [w EXCEPT !.log = @ \cup
                              {[op |-> "close", obj |-> "videoSource",
                                rec |-> w.videoSource, by |-> by]},
                            !.videoSource = 0]
             ELSE w
  IN IF v.output # 0
       THEN [v EXCEPT !.log = @ \cup
                        {[op |-> "finalize", obj |-> "output",
                          rec |-> v.output, by |-> by]},
                      !.tasks = @ \cup
                        {[fn |-> "stop", at |-> "finalize", rec |-> by,
                          obj |-> v.output]}]
       ELSE [v EXCEPT !.toMain = Append(@, "stopped"),
                      !.stopped[by] = @ + 1]

\* the worker's 'message' listener, up to the first await of the call it
\* makes: startRecording suspends at createWritable, stopRecording at
\* encoder.flush() or output.finalize(), encodeFrame runs to its end
WorkerMessage ==
  /\ probe.toWorker # << >>
  /\ Len(probe.toMain) < MaxInFlight
  /\ LET m == Head(probe.toWorker)
         w == [probe EXCEPT !.toWorker = Tail(@)]
     IN CASE m = "start" ->
               SetVideo([w EXCEPT !.starts = @ + 1,
                                  !.isRecording = TRUE,
                                  !.frameCount = 0,
                                  !.tasks = @ \cup
                                    {[fn |-> "start", at |-> "createWritable",
                                      rec |-> w.starts + 1, obj |-> 0]}])
          [] m = "stop" ->
               IF ~w.isRecording
                 THEN SetVideo(w)
                 ELSE IF w.encoder # 0
                   THEN SetVideo([w EXCEPT !.isRecording = FALSE,
                                           !.tasks = @ \cup
                                             {[fn |-> "stop", at |-> "flush",
                                               rec |-> w.starts,
                                               obj |-> w.encoder]}])
                   ELSE SetVideo(StopAfterEncoder(
                                   [w EXCEPT !.isRecording = FALSE], w.starts))
          [] OTHER ->
               \E throws \in BOOLEAN : SetVideo(encodeFrame(w, throws))

\* a suspended startRecording or stopRecording resumed, the awaited call
\* having succeeded (ok) or thrown; flush() ends when the encoder it was
\* called on has emptied its queue
WorkerResume ==
  /\ Len(probe.toMain) < MaxInFlight
  /\ \E t \in probe.tasks, ok \in BOOLEAN :
       LET w == [probe EXCEPT !.tasks = @ \ {t}]
           failed == [w EXCEPT !.toMain = Append(@, "error")]
       IN CASE t.at = "createWritable" ->
                 IF ok
                   THEN SetVideo([w EXCEPT
                          !.output = t.rec,
                          !.videoSource = t.rec,
                          !.encoder = t.rec,
                          !.queueFull = FALSE,
                          !.tasks = @ \cup
                            {[fn |-> "start", at |-> "outputStart",
                              rec |-> t.rec, obj |-> t.rec]}])
                   ELSE SetVideo([failed EXCEPT !.isRecording = FALSE])
            [] t.at = "outputStart" ->
                 IF ok
                   THEN SetVideo([w EXCEPT !.toMain = Append(@, "started")])
                   ELSE SetVideo([failed EXCEPT !.isRecording = FALSE])
            [] t.at = "flush" ->
                 /\ probe.encodeQueueSize[t.obj] = 0
                 /\ IF ~ok \/ w.encoder = 0
                      THEN SetVideo(failed)
                      ELSE SetVideo(StopAfterEncoder(
                             [w EXCEPT
                                !.log = @ \cup
                                  {[op |-> "close", obj |-> "encoder",
                                    rec |-> w.encoder, by |-> t.rec]},
                                !.encodeQueueSize[w.encoder] = 0,
                                !.encoder = 0],
                             t.rec))
            [] OTHER ->
                 IF ok
                   THEN SetVideo([w EXCEPT
                          !.log = IF w.output # 0
                                    THEN @ \cup
                                      {[op |-> "null", obj |-> "output",
                                        rec |-> w.output, by |-> t.rec]}
                                    ELSE @,
                          !.output = 0,
                          !.toMain = Append(@, "stopped"),
                          !.stopped[t.rec] = @ + 1])
                   ELSE SetVideo(failed)

\* an encoder finishes a queued frame and fires 'dequeue': the listener
\* posts 'queueNotFull' when the current encoder's queue is below the limit
\* and queueFull is set
EncoderDequeue ==
  /\ Len(probe.toMain) < MaxInFlight
  /\ \E e \in 1 .. MaxClicks :
       /\ probe.encodeQueueSize[e] > 0
       /\ LET w == [probe EXCEPT !.encodeQueueSize[e] = @ - 1]
          IN IF w.encoder # 0 /\ w.queueFull
                /\ w.encodeQueueSize[w.encoder] < MAX_QUEUE_SIZE
               THEN SetVideo([w EXCEPT !.toMain = Append(@, "queueNotFull"),
                                       !.queueFull = FALSE])
               ELSE SetVideo(w)

\* recordings started and stopped: with at most MaxShots frames captured the
\* encoder queue stays below MAX_QUEUE_SIZE, no 'queueFull' is posted and the
\* loop never awaits, so LoopResume has nothing to resume here
NextVideo ==
  \/ StartStopVideo
  \/ MainMessage
  \/ LoopCapture
  \/ WorkerMessage
  \/ WorkerResume
  \/ EncoderDequeue

SpecVideo == InitVideo /\ [][NextVideo]_vars

\* one recording under way: the record button was clicked once, the worker
\* has run startRecording to its end and the page has received 'started'
InitStream ==
  /\ probe = [VideoIdle EXCEPT !.savingVideo = TRUE,
                               !.clicks = 1,
                               !.frameLimit = MaxFrames,
                               !.encoder = 1,
                               !.output = 1,
                               !.videoSource = 1,
                               !.isRecording = TRUE,
                               !.starts = 1]
  /\ grid_size_x = Unassigned
  /\ grid_size_y = Unassigned
  /\ step = Unassigned
  /\ currentCellState = Unassigned
  /\ cellStateArray = << >>
  /\ cellStateStorage = << >>
  /\ queue = << >>
  /\ invoked = {}
  /\ updates = 0
  /\ bufKind = [b \in {0, 1} |-> "none"]
  /\ renderSeen = "none"
  /\ staleSeen = FALSE

\* the recording runs on: no click, and so no call left suspended
NextStream ==
  \/ MainMessage
  \/ LoopCapture
  \/ LoopResume
  \/ WorkerMessage
  \/ EncoderDequeue

SpecStream == InitStream /\ [][NextStream]_vars

\* ------------------------------------------------- main.ts: the render loop

\* const slomoFactor = 4: the loop's clock ts advances by 1000 / 60 /
\* slomoFactor milliseconds per frame. The model counts ts and lastLifeStep
\* in these ticks, 60 * slomoFactor to the second.
slomoFactor == 4

\* the test of the loop without the case of an infinite lifeStepMs: a speed
\* of 0 makes a step due in every frame
LifeStepDue_ZeroRuns(ts, last, sps) ==
  LET scaledNext == IF ts * sps >= last * sps + 60 * slomoFactor
                      THEN ts * sps ELSE last * sps + 60 * slomoFactor
  IN sps = 0 \/ ts * sps >= scaledNext

\* lifeStepMs = 1000 / lifeStepsPerSecond, nextLifeStep = Math.max(ts,
\* lastLifeStep + lifeStepMs) and the test ts >= nextLifeStep, for a speed
\* sps >= 0: both sides are multiplied by sps to stay in whole numbers, and
\* with sps = 0 lifeStepMs and nextLifeStep are Infinity and the test fails
LifeStepDue(ts, last, sps) ==
  LET scaledNext == IF ts * sps >= last * sps + 60 * slomoFactor
                      THEN ts * sps ELSE last * sps + 60 * slomoFactor
  IN sps # 0 /\ ts * sps >= scaledNext

\* the page loaded: the engine on a 1 x 1 grid with its seed uploaded, the
\* loop about to run its first frame at ts = 0 with lastLifeStep undefined
\* (-1), and the saved speed setting
InitPace ==
  /\ \E sps \in {0, 30, 60, 480} :
       probe = [phase |-> "pace", ts |-> 0, lastLifeStep |-> -1,
                lifeStepsPerSecond |-> sps, called |-> 0, waited |-> 0,
                spsAt |-> sps, buttonCalls |-> 0]
  /\ grid_size_x = 1
  /\ grid_size_y = 1
  /\ cellStateArray = [i \in {0} |-> 1]
  /\ cellStateStorage = [b \in {0, 1} |-> IF b = 0 THEN cellStateArray
                                                   ELSE ZeroBuffer(1)]
  /\ step = 0
  /\ currentCellState = 0
  /\ queue = << >>
  /\ invoked = {}
  /\ updates = 0
  /\ bufKind = [b \in {0, 1} |-> IF b = 0 THEN "seeded" ELSE "zero"]
  /\ renderSeen = "none"
  /\ staleSeen = FALSE

\* one frame of the render loop: lastLifeStep is set when undefined, then
\* life.update() is called if a step is due and lastLifeStep becomes
\* nextLifeStep (which is ts then), the render pass is submitted, and ts
\* advances by one frame (the loop of the newer main.ts) or by as much as
\* requestAnimationFrame reports (render(ts) of the older one)
LoopPace ==
  /\ probe.ts < MaxTicks
  /\ Len(queue) + 2 <= MaxQueue
  /\ LET last == IF probe.lastLifeStep = -1 THEN probe.ts
                                            ELSE probe.lastLifeStep
         sps == probe.lifeStepsPerSecond
         due == LifeStepDue(probe.ts, last, sps)
         submitted == IF due THEN Append(queue, ComputeOp(step % 2))
                             ELSE queue
     IN /\ step' = IF due THEN NextStep(step) ELSE step
        /\ currentCellState' = step' % 2
        /\ updates' = IF due THEN updates + 1 ELSE updates
        /\ queue' = Append(submitted,
                       RenderOp(currentCellState',
                                AfterQueue(submitted, cellStateStorage)
                                  [currentCellState']))
        /\ \E dt \in {1, 3} :
             probe' = [probe EXCEPT
                         !.lastLifeStep = IF due THEN probe.ts ELSE last,
                         !.called = IF due THEN 1 ELSE 0,
                         !.waited = probe.ts - last,
                         !.spsAt = sps,
                         !.ts = @ + dt]
  /\ UNCHANGED << grid_size_x, grid_size_y, cellStateArray, cellStateStorage,
                  invoked, bufKind, renderSeen, staleSeen >>

\* a click on the step button, which is enabled only while the speed is 0:
\* life.update()
StepButton ==
  /\ probe.lifeStepsPerSecond = 0
  /\ probe.buttonCalls < MaxStep
  /\ Len(queue) < MaxQueue
  /\ queue' = Append(queue, ComputeOp(step % 2))
  /\ step' = NextStep(step)
  /\ currentCellState' = step' % 2
  /\ updates' = updates + 1
  /\ probe' = [probe EXCEPT !.buttonCalls = @ + 1]
  /\ UNCHANGED << grid_size_x, grid_size_y, cellStateArray, cellStateStorage,
                  invoked, bufKind, renderSeen, staleSeen >>

\* updateLifeSpeed(): the speed typed by the user, kept within the limits of
\* the input element
UpdateLifeSpeed ==
  /\ \E sps \in {0, 30, 60, 480} :
       /\ sps # probe.lifeStepsPerSecond
       /\ probe' = [probe EXCEPT !.lifeStepsPerSecond = sps]
  /\ UNCHANGED << grid_size_x, grid_size_y, step, currentCellState,
                  cellStateArray, cellStateStorage, queue, invoked, updates,
                  bufKind, renderSeen, staleSeen >>

NextPace ==
  \/ LoopPace
  \/ StepButton
  \/ UpdateLifeSpeed
  \/ GpuInvocation
  \/ GpuPassEnd
  \/ GpuRender

SpecPace == InitPace /\ [][NextPace]_vars

\* ------------------------------------------------------------ the claims

\* the cells of the grid
GridCells == (0 .. grid_size_x - 1) \X (0 .. grid_size_y - 1)

\* the flat row-major index of cell c
Flat(c) == c[2] * grid_size_x + c[1]

\* under SpecPass: the dispatch has completed; buffer A (and its copy, the
\* scratch array uploaded to it) is the pre-update buffer, buffer B the
\* post-update buffer
PassDone == queue = << >> /\ bufKind[1] = "generation"

\* the sum of the 8 neighbours of cell c in the pre-update buffer
PreSum(c) == activeNeighbors(cellStateArray, c[1], c[2])

\* C1: after one update, every cell whose 8 neighbours in the pre-update
\* buffer sum to exactly 2 holds the value it held before, alive or dead.
C1_StabilityRule ==
  PassDone =>
    \A c \in GridCells :
      PreSum(c) = 2 => cellStateStorage[1][Flat(c)] = cellStateArray[Flat(c)]

\* a completed update with a live cell and a dead cell of 2 neighbours each
C1_Witness ==
  /\ PassDone
  /\ \E c \in GridCells : PreSum(c) = 2 /\ cellStateArray[Flat(c)] = 1
  /\ \E c \in GridCells : PreSum(c) = 2 /\ cellStateArray[Flat(c)] = 0

\* C2: after one update, every cell whose 8 neighbours in the pre-update
\* buffer sum to exactly 3 is alive, whatever it held before.
C2_BirthRule ==
  PassDone =>
    \A c \in GridCells : PreSum(c) = 3 => cellStateStorage[1][Flat(c)] = 1

\* a completed update with a live cell and a dead cell of 3 neighbours each
C2_Witness ==
  /\ PassDone
  /\ \E c \in GridCells : PreSum(c) = 3 /\ cellStateArray[Flat(c)] = 1
  /\ \E c \in GridCells : PreSum(c) = 3 /\ cellStateArray[Flat(c)] = 0

\* C3: after one update, every cell whose 8 neighbours in the pre-update
\* buffer sum to anything but 2 or 3 is dead, whatever it held before.
C3_DeathRule ==
  PassDone =>
    \A c \in GridCells :
      PreSum(c) \notin {2, 3} => cellStateStorage[1][Flat(c)] = 0

\* a completed update with a live cell of fewer than 2 neighbours and a live
\* cell of more than 3
C3_Witness ==
  /\ PassDone
  /\ \E c \in GridCells : PreSum(c) < 2 /\ cellStateArray[Flat(c)] = 1
  /\ \E c \in GridCells : PreSum(c) > 3 /\ cellStateArray[Flat(c)] = 1

\* the probed pair has been resolved
Resolved == probe.phase = "resolved"

\* C4: for every accepted grid and every pair of 32-bit coordinates, the
\* index cellIndex computes and the index setCell writes lie in
\* [0, width * height).
C4_IndexInRange ==
  Resolved =>
    \A i \in { probe.shader, probe.shaderW, probe.shaderWW, probe.shaderR,
               probe.seeder, probe.seederW, probe.seederWW, probe.seederR } :
      i \in 0 .. NumCells - 1

\* a resolved pair with x = -1 (0 - 1, the largest u32) and y at the end of
\* the 32-bit range, on a grid of more than one row and column
C4_Witness ==
  /\ Resolved
  /\ probe.x = -1
  /\ probe.y = MaxInt32
  /\ grid_size_x > 1 /\ grid_size_y > 1

C7_StepCountsUpdates ==
  /\ step = updates
  /\ currentCellState = step % 2

\* two updates made, and buffer B seeded (a seeder ran while step was odd)
C7_Witness ==
  /\ updates = 2
  /\ bufKind[1] = "seeded"

\* C8: update() at step s submits a compute pass that reads the buffer
\* current before the call, cellStateStorage[s % 2], and writes the other;
\* the call writes no buffer itself, and no step taken while that pass
\* executes changes the buffer it reads.
C8_InputBufferReadOnly ==
  [][ /\ (updates' = updates + 1) =>
           /\ cellStateStorage' = cellStateStorage
           /\ currentCellState = step % 2
           /\ queue' = Append(queue, ComputeOp(currentCellState))
           /\ currentCellState' = 1 - currentCellState
      /\ (queue # << >> /\ Head(queue).op = "compute") =>
           cellStateStorage'[Head(queue).buf] = cellStateStorage[Head(queue).buf]
    ]_vars

\* the pass of an update made at an odd step has run all its invocations
\* and has changed its output buffer
C8_Witness ==
  /\ queue # << >>
  /\ Head(queue).op = "compute"
  /\ Head(queue).buf = 1
  /\ invoked = Invocations
  /\ staleSeen

\* C9: one dispatch runs computeMain for exactly the cells of the grid, each
\* invocation stores to its own cell, the stores cover the output buffer,
\* and when the invocations have run the output buffer is the next
\* generation of the input buffer, whatever the output buffer held before.
C9_DispatchCoversGrid ==
  /\ Invocations = GridCells
  /\ invoked \subseteq GridCells
  /\ \A c, d \in Invocations :
       c # d => cellIndex(c[1], c[2]) # cellIndex(d[1], d[2])
  /\ { cellIndex(c[1], c[2]) : c \in Invocations } = 0 .. NumCells - 1
  /\ (queue # << >> /\ Head(queue).op = "compute" /\ invoked = Invocations) =>
       cellStateStorage[1] = NextGeneration(cellStateArray)
  /\ PassDone => cellStateStorage[1] = NextGeneration(cellStateArray)

\* a dispatch of more than one workgroup has run all its invocations over
\* stale contents that differed from the generation computed
C9_Witness ==
  /\ queue # << >>
  /\ invoked = Invocations
  /\ staleSeen
  /\ DispatchX * DispatchY > 1
  /\ bufKind[0] = "seeded"

\* C10: every render pass reads a buffer that holds a complete seeded
\* pattern or a completely computed generation, and reads in it what the
\* operations submitted before the pass leave there: never a new buffer,
\* the output of an unfinished compute pass, or a later write.
C10_AtomicHandoff == renderSeen \in {"none", "seeded", "generation"}

\* a render pass has read a computed generation while later operations are
\* in the queue
C10_Witness ==
  /\ renderSeen = "generation"
  /\ queue # << >>
  /\ updates >= 2

RECURSIVE Generations(_, _)
\* the n-th generation after pattern p
Generations(p, n) == IF n = 0 THEN p ELSE Generations(NextGeneration(p), n - 1)

\* C11: whatever the order in which the invocations of computeMain run,
\* every cell an invocation has stored holds the next generation of the
\* pass's input buffer, and the buffer left by the N-th completed update is
\* the N-th generation of the pattern the engine started from, so two
\* engines of equal dimensions and equal patterns hold equal buffers.
C11_OrderIndependence ==
  /\ (queue # << >> /\ Head(queue).op = "compute") =>
       LET k == Head(queue).buf
       IN \A c \in invoked :
            cellStateStorage[BindOut(k)][cellIndex(c[1], c[2])] =
              NextGeneration(cellStateStorage[BindIn(k)])[cellIndex(c[1], c[2])]
  /\ LET done == updates - Len(queue)
     IN cellStateStorage[done % 2] = Generations(cellStateArray, done)

\* two updates have completed, the first of which left a generation with a
\* live cell that differs from the generation the second left
C11_Witness ==
  /\ queue = << >>
  /\ updates = 2
  /\ \E i \in DOMAIN cellStateStorage[1] : cellStateStorage[1][i] = 1
  /\ cellStateStorage[1] # cellStateStorage[0]
  /\ cellStateStorage[1] # cellStateArray

\* C12: a seeding call changes neither step nor currentCellState nor any
\* buffer itself; it submits writes of a whole array of width * height cells
\* to the current buffer cellStateStorage[step % 2], the last of them the
\* scratch array it leaves; and an executing write replaces its buffer by
\* that array and leaves the other buffer as it was.
C12_SeedingReplacesCurrent ==
  [][ /\ (Len(queue') > Len(queue) /\ queue'[Len(queue')].op = "write") =>
           /\ step' = step
           /\ currentCellState' = currentCellState
           /\ cellStateStorage' = cellStateStorage
           /\ \A j \in Len(queue) + 1 .. Len(queue') :
                /\ queue'[j].op = "write"
                /\ queue'[j].buf = step % 2
                /\ DOMAIN queue'[j].data = 0 .. NumCells - 1
           /\ queue'[Len(queue')].data = cellStateArray'
      /\ (queue # << >> /\ Head(queue).op = "write" /\ queue' = Tail(queue)) =>
           LET b == Head(queue).buf
           IN /\ cellStateStorage'[b] = Head(queue).data
              /\ cellStateStorage'[1 - b] = cellStateStorage[1 - b]
              /\ step' = step
    ]_vars

\* after one update a seeder has replaced buffer B, the current buffer, and
\* buffer A still holds the earlier, different pattern
C12_Witness ==
  /\ step = 1
  /\ queue = << >>
  /\ bufKind[0] = "seeded"
  /\ bufKind[1] = "seeded"
  /\ cellStateStorage[1] = cellStateArray
  /\ cellStateStorage[0] # cellStateStorage[1]

\* the constructor has returned or thrown
Constructed == probe.phase \in {"constructed", "thrown"}

\* n2 / 2 is a positive integer power of two
PowerOfTwoHalves(n2) == \E k \in 0 .. 6 : n2 = 2 * 2^k

C14_OddHeightRejected ==
  (Constructed /\ probe.h2 = 2) => probe.phase = "thrown"

\* C15: a randomized seeder called with a probability outside [0, 1]
\* throws: it submits no write and leaves the scratch array and the current
\* buffer as they were.
C15_BadProbabilityFailsFast ==
  (probe.phase # "call" /\ probe.fraction \notin 0 .. 100) =>
    /\ probe.phase = "thrown"
    /\ queue = << >>
    /\ cellStateArray = probe.before
    /\ cellStateStorage[currentCellState] = probe.before

SeamStep(i) == cellIndex((i % grid_size_x) + 1, i \div grid_size_x)

RECURSIVE WalkCells(_, _)
\* the cells visited by n moves to the right from cell i, the last included
WalkCells(i, n) ==
  IF n = 0 THEN {i} ELSE {i} \cup WalkCells(SeamStep(i), n - 1)

RECURSIVE WalkEnd(_, _)
\* the cell reached by n moves to the right from cell i
WalkEnd(i, n) == IF n = 0 THEN i ELSE WalkEnd(SeamStep(i), n - 1)

\* the live cells of the scratch array
LiveCells == { i \in DOMAIN cellStateArray : cellStateArray[i] = 1 }

\* C17: after clear() and drawXStripe(y) the live cells are exactly the
\* cells of rows y mod height and (height / 2 - 1 - y) mod height (height / 2
\* as the shader divides, in integers); from every live cell, 2 * width
\* moves to the cell cellIndex resolves one column to the right visit live
\* cells only, visit every live cell, and end at the start.
C17_SeamClosure ==
  probe.phase = "drawn" =>
    /\ LiveCells =
         { i \in DOMAIN cellStateArray :
             (i \div grid_size_x) \in
               { probe.y % grid_size_y,
                 ((grid_size_y \div 2) - 1 - probe.y) % grid_size_y } }
    /\ \A i \in LiveCells :
         /\ WalkEnd(i, 2 * grid_size_x) = i
         /\ WalkCells(i, 2 * grid_size_x) = LiveCells

\* a stripe drawn at row -1 of a 4 x 8 grid: two distinct rows of 4 cells
C17_Witness ==
  /\ probe.phase = "drawn"
  /\ probe.y = -1
  /\ grid_size_x = 4
  /\ grid_size_y = 8
  /\ Cardinality(LiveCells) = 8

\* the live cells of array a, as coordinate pairs
LiveAt(a) == { c \in GridCells : a[Flat(c)] = 1 }

\* the last pattern seeded is the glider of setOneGlider(), and exactly 4
\* updates have been made and have completed
GliderRan ==
  /\ cellStateArray = setOneGliderArray(cellStateArray)
  /\ updates = 4
  /\ queue = << >>

\* C18: on grids of 8 x 8 and more, 4 updates after setOneGlider() the live
\* cells are the 5 seeded cells moved by one cell diagonally, and no other
\* cell is alive.
C18_GliderTranslation ==
  GliderRan =>
    /\ Cardinality(LiveAt(cellStateArray)) = 5
    /\ \E dx, dy \in {-1, 1} :
         LiveAt(cellStateStorage[currentCellState]) =
           { << (c[1] + dx) % grid_size_x, (c[2] + dy) % grid_size_y >> :
               c \in LiveAt(cellStateArray) }

\* the glider has run its 4 updates on the 8 x 8 grid, where row 10 of
\* setOneGlider() wraps to row 2
C18_Witness ==
  /\ GliderRan
  /\ grid_size_x = 8
  /\ grid_size_y = 8

\* the last pattern seeded is the ring around (3, 3) on the 8 x 8 grid, and
\* exactly one update has been made and has completed
RingRan ==
  /\ grid_size_x = 8
  /\ grid_size_y = 8
  /\ cellStateArray = RingArray(cellStateArray)
  /\ updates = 1
  /\ queue = << >>

\* C19: on the 8 x 8 grid, one update after the 8 cells around (3, 3) are
\* seeded leaves exactly the four corners and the four cells born at
\* (3, 1), (1, 3), (5, 3) and (3, 5) alive.
C19_RingExample ==
  RingRan =>
    LiveAt(cellStateStorage[currentCellState]) =
      { <<2, 2>>, <<4, 2>>, <<2, 4>>, <<4, 4>>,
        <<3, 1>>, <<1, 3>>, <<5, 3>>, <<3, 5>> }

\* the ring has run its update, computed into buffer B
C19_Witness ==
  /\ RingRan
  /\ currentCellState = 1
  /\ bufKind[1] = "generation"
  /\ Cardinality(LiveAt(cellStateArray)) = 8

\* C20: in every state reached by construction, seeding and updates, every
\* cell of the current buffer, of the other buffer and of the scratch array
\* holds 0 or 1.
C20_CellsAreBits ==
  /\ \A b \in {0, 1} : \A i \in DOMAIN cellStateStorage[b] :
       cellStateStorage[b][i] \in {0, 1}
  /\ \A i \in DOMAIN cellStateArray : cellStateArray[i] \in {0, 1}

\* the current buffer holds a computed generation with a live and a dead
\* cell
C20_Witness ==
  /\ queue = << >>
  /\ updates >= 1
  /\ bufKind[currentCellState] = "generation"
  /\ \E i, j \in DOMAIN cellStateStorage[currentCellState] :
       /\ cellStateStorage[currentCellState][i] = 1
       /\ cellStateStorage[currentCellState][j] = 0

\* the probed seeder call has returned
SeedReturned(sd) == probe.phase = "returned" /\ probe.seeder = sd

\* C21: when setFull() returns, every cell of the scratch array and of the
\* write it has submitted to the current buffer is 1, and so is every cell
\* of the current buffer once the write has executed, whatever the scratch
\* array held before.
C21_SetFullFillsAll ==
  SeedReturned("setFull") =>
    /\ \A i \in 0 .. NumCells - 1 : cellStateArray[i] = 1
    /\ \A j \in 1 .. Len(queue) :
         queue[j] = WriteOp(currentCellState, cellStateArray)
    /\ queue = << >> => cellStateStorage[currentCellState] = cellStateArray

\* setFull() has run on a 4 x 4 scratch array that was empty, and its write
\* has executed
C21_Witness ==
  /\ SeedReturned("setFull")
  /\ queue = << >>
  /\ grid_size_x = 4
  /\ grid_size_y = 4
  /\ \A i \in DOMAIN probe.before : probe.before[i] = 0

\* C22: on a grid of 8 x 8 and more, every cell setRandomGliders leaves
\* alive lies in columns bx+1..bx+6 and rows by+1..by+6 of its 8 x 8 square.
C22_GliderAwayFromEdge ==
  (SeedReturned("setRandomGliders") /\ grid_size_x >= 8 /\ grid_size_y >= 8) =>
    \A c \in GridCells :
      cellStateArray[Flat(c)] = 1 =>
        (c[1] % 8) \in 1 .. 6 /\ (c[2] % 8) \in 1 .. 6

\* C23: setRandomXStripes(p) and setRandomYStripes(p) leave the grid full
\* when p = 1 and empty when p = 0, for every outcome of the random source.
C23_StripeProbability ==
  (SeedReturned("setRandomXStripes") \/ SeedReturned("setRandomYStripes")) =>
    /\ probe.fraction = 100 => \A i \in 0 .. NumCells - 1 : cellStateArray[i] = 1
    /\ probe.fraction = 0 => \A i \in 0 .. NumCells - 1 : cellStateArray[i] = 0

\* C24: for every pair of cells a and b of every grid, as many of the 8
\* neighbour lookups of a resolve to b as of the 8 neighbour lookups of b
\* resolve to a.
C24_NeighbourhoodSymmetric ==
  probe.phase = "counted" => probe.ab = probe.ba

\* a cell of the last column and a cell of column 0 in another row that are
\* neighbours across the seam, on a grid of 8 x 8
C24_Witness ==
  /\ probe.phase = "counted"
  /\ grid_size_x = 8
  /\ grid_size_y = 8
  /\ probe.a % 8 = 7
  /\ probe.b % 8 = 0
  /\ probe.a \div 8 = 0
  /\ probe.b \div 8 = 3
  /\ probe.ab = 1

\* C25: after setOneGlider() on a grid of 8 x 8 and more, the seeded buffer
\* and every generation computed from it hold exactly 5 live cells.
C25_GliderKeepsFiveCells ==
  \A b \in {0, 1} :
    bufKind[b] \in {"seeded", "generation"} =>
      Cardinality(LiveAt(cellStateStorage[b])) = 5

\* a computed generation on the 8 x 8 grid in which the glider has live
\* cells on both sides of the seam, in column 0 and in column 7
C25_Witness ==
  /\ grid_size_x = 8
  /\ grid_size_y = 8
  /\ \E b \in {0, 1} :
       /\ bufKind[b] = "generation"
       /\ \E c, d \in LiveAt(cellStateStorage[b]) : c[1] = 0 /\ d[1] = 7

\* the number hi * 2^32 + u + half / 2 is 2^k for a whole k >= 0
PowerOfTwoWide(hi, lo, half) ==
  /\ half = 0
  /\ \/ hi = 0 /\ (lo = MinInt32 \/ \E k \in 0 .. 30 : lo = 2^k)
     \/ lo = 0 /\ \E k \in 0 .. 20 : hi = 2^k

\* C26: isPowerOf2(n) returns true exactly when n is a power of two, for
\* every number n, fractions and integers at or above 2^31 included.
C26_PowerOfTwoExactly ==
  probe.phase = "tested" =>
    (probe.result <=> PowerOfTwoWide(probe.hi, probe.lo, probe.half))

\* C27: while the render loop awaits a promise, that promise is resolved
\* already or is the one the next 'queueNotFull' will resolve.
C27_NoLostWakeUp ==
  probe.loop = "awaiting" =>
    \/ probe.awaited \in probe.resolved
    \/ probe.awaited = probe.resolveVideoQueueReady

\* C28: every encoder, video source and output is closed, finalized or
\* nulled only by the stopRecording that ends its own recording, and no
\* recording is answered by more than one 'stopped'.
C28_StopTouchesOwnRecording ==
  /\ \A c \in probe.log : c.rec = c.by
  /\ \A r \in 1 .. MaxClicks : probe.stopped[r] <= 1

\* C29: encodeFrame closes its frame exactly once on each path; frameCount
\* grows by one when encode succeeds and is unchanged when the frame is
\* dropped or encode throws, which posts 'error'.
C29_FrameClosedOnce ==
  probe.last.path # "none" =>
    /\ probe.last.closes = 1
    /\ probe.last.path = "dropped" =>
         probe.last.after = probe.last.before /\ ~probe.last.error
    /\ probe.last.path = "encoded" =>
         probe.last.after = probe.last.before + 1 /\ ~probe.last.error
    /\ probe.last.path = "threw" =>
         probe.last.after = probe.last.before /\ probe.last.error

\* the three paths: a frame dropped before any recording, a frame encoded
\* and counted, and a recording in which encode has thrown
C29_Witness ==
  /\ probe.last.path = "threw"
  /\ probe.frameCount > 0
  /\ probe.starts > 0

\* C30: a frame of the render loop calls life.update() at most once, and
\* only at a speed other than 0 and when at least 1000 / lifeStepsPerSecond
\* milliseconds lie between lastLifeStep and ts; while the speed has been 0
\* from the start, every update() so far is a click on the step button.
C30_UpdatePaced ==
  probe.phase = "pace" =>
    /\ probe.called \in {0, 1}
    /\ probe.called = 1 =>
         /\ probe.spsAt # 0
         /\ probe.waited * probe.spsAt >= 60 * slomoFactor
    /\ updates = step
    /\ probe.lastLifeStep \in {-1, 0} => step = probe.buttonCalls

\* the loop has just called update() at 30 steps a second, 8 frames or
\* more after lastLifeStep, the step button having been used before
C30_Witness ==
  /\ probe.phase = "pace"
  /\ probe.called = 1
  /\ probe.spsAt = 30
  /\ probe.waited >= 8
  /\ probe.buttonCalls > 0

====
